---- MODULE Spec2Model ----
(***************************************************************************)
(* A model of the sudoku crate (src/src/lib.rs): the 81-bit Mask, the      *)
(* per-digit Layer, the Puzzle with its solve loop, and the three Segment  *)
(* kinds Row, Column and Cell.                                             *)
(*                                                                         *)
(* Board positions are 0..80, row-major.  A Mask is the set of its set     *)
(* bits as seen through Deref, i.e. restricted to 0..80.  A Layer is a     *)
(* record [indices, mask]; its value is its key in the layers function.    *)
(***************************************************************************)
EXTENDS Integers, Sequences, FiniteSets, TLC

SUDOKU_L == 9
SUDOKU_C == 3
SUDOKU_A == 81

\* BitArr!(for 81, in u32): three u32 words, 96 bits of storage.
StorageBits == 96

Positions == 0 .. (SUDOKU_A - 1)
Digits == 1 .. SUDOKU_L

\* Option::None of locate.
NotFound == -1

---------------------------------------------------------------------------
(* Bounds of the model. *)

\* Largest index handed to a shape constructor on its own.
MaxIndex == 89
\* Longest sequence of direct update calls on an empty Puzzle.
MaxUpdates == 2
\* Largest index of a direct update call.
MaxUpdIndex == 3
\* Largest number of cells blanked in a grid of the puzzle family.
MaxHoles == 4
\* Largest number of unblocked positions of the segment a probed mask is
\* built around.
MaxUnblocked == 2

---------------------------------------------------------------------------
(* Mask *)

\* The bit patterns of "index 0", as positions of the 1 bits.
CellPattern == {0, 1, 2, 9, 10, 11, 18, 19, 20}
RowPattern == 0 .. 8
ColumnPattern == {9 * i : i \in 0 .. 8}

\* BitSlice::shift_right(by) on the 96 bits of storage, then seen through
\* Deref as bits[..81]: bits move to higher indices, bits pushed past the
\* storage are dropped, and bits 81..95 are never observed.
ShiftRight(pattern, by) ==
    {b + by : b \in {x \in pattern : x + by < StorageBits}} \cap Positions

\* The assertions of the three constructors.
CellAccepts(index) == index < SUDOKU_A /\ index % SUDOKU_L < 7
RowAccepts(index) == index % SUDOKU_L = 0
ColumnAccepts(index) == index < SUDOKU_L

MaskCell(index) == ShiftRight(CellPattern, index)
MaskRow(index) == ShiftRight(RowPattern, index)
MaskColumn(index) == ShiftRight(ColumnPattern, index)

---------------------------------------------------------------------------
(* Layer *)

LayerNew == [indices |-> << >>, mask |-> {}]

Blot(layer, index) == [layer EXCEPT !.mask = @ \cup {index}]

\* occupy without the row mask.
OccupyNoRow(layer, index) ==
    LET cell == MaskCell(SUDOKU_C * SUDOKU_L * (index \div (SUDOKU_C * SUDOKU_L))
                         + SUDOKU_C * ((index % SUDOKU_L) \div SUDOKU_C))
        column == MaskColumn(index % SUDOKU_L)
    IN [indices |-> Append(layer.indices, index),
        mask |-> layer.mask \cup cell \cup column]

Occupy(layer, index) ==
    LET cell == MaskCell(SUDOKU_C * SUDOKU_L * (index \div (SUDOKU_C * SUDOKU_L))
                         + SUDOKU_C * ((index % SUDOKU_L) \div SUDOKU_C))
        row == MaskRow(SUDOKU_L * (index \div SUDOKU_L))
        column == MaskColumn(index % SUDOKU_L)
    IN [indices |-> Append(layer.indices, index),
        mask |-> layer.mask \cup cell \cup row \cup column]

\* A layer counted as solved one placement early.
LayerIsSolvedAtEight(layer) == Len(layer.indices) >= SUDOKU_L - 1

LayerIsSolved(layer) == Len(layer.indices) = SUDOKU_L

---------------------------------------------------------------------------
(* Puzzle: parse, update, is_solved, readout *)

EmptyLayers ==
    <<LayerNew, LayerNew, LayerNew, LayerNew, LayerNew,
      LayerNew, LayerNew, LayerNew, LayerNew>>

\* update that leaves the other layers alone: occupy without the blots.
UpdateNoBlot(ls, value, index) ==
    LET each(v) == IF v = value THEN Occupy(ls[v], index) ELSE ls[v]
    IN <<each(1), each(2), each(3), each(4), each(5),
         each(6), each(7), each(8), each(9)>>

\* update: every layer in turn; the nine results are written out as a tuple.
Update(ls, value, index) ==
    LET each(v) == IF v = value THEN Occupy(ls[v], index)
                                ELSE Blot(ls[v], index)
    IN <<each(1), each(2), each(3), each(4), each(5),
         each(6), each(7), each(8), each(9)>>

\* The positions of a set in ascending order.
Ascending(set) ==
    [n \in 1 .. Cardinality(set) |->
        CHOOSE b \in set : Cardinality({c \in set : c < b}) = n - 1]

\* The three masks occupy ors into a layer's mask.
OccupyMask(index) == Occupy(LayerNew, index).mask

\* parse: the characters in order; '0' is skipped, any other digit is
\* occupied in its own layer and blotted in the others.  feed[p + 1] is the
\* digit of the character at position p; a feed has 81 characters.  The
\* result is written in closed form: a layer's indices are the positions of its digit in ascending order
\* (the order of the pushes), and its mask is the union of what the occupy
\* and blot calls set.
Parse(feed) ==
    LET at(v) == {p \in Positions : feed[p + 1] = v}
        blotted(v) ==
            {p \in Positions : feed[p + 1] \notin {0, v}}
        each(v) ==
            [indices |-> Ascending(at(v)),
             mask |-> blotted(v) \cup UNION {OccupyMask(p) : p \in at(v)}]
    IN <<each(1), each(2), each(3), each(4), each(5),
         each(6), each(7), each(8), each(9)>>

\* any() in place of all().
IsSolvedAny(ls) == \E v \in Digits : LayerIsSolved(ls[v])

IsSolved(ls) == \A v \in Digits : LayerIsSolved(ls[v])

\* The digits whose layer lists position p.
Holders(ls, p) ==
    {v \in Digits : \E i \in 1 .. Len(ls[v].indices) : ls[v].indices[i] = p}

\* readout: a string of '0's, then each (index, value) of the HashMap
\* collected from the layers in order; a later layer's entry for the same
\* index replaces an earlier one.  Character p of the string is Readout[p].
Readout(ls) ==
    [p \in Positions |->
        IF Holders(ls, p) = {} THEN 0
        ELSE CHOOSE v \in Holders(ls, p) : \A w \in Holders(ls, p) : w <= v]

---------------------------------------------------------------------------
(* Segment *)

Row(row) == [kind |-> "Row", index |-> SUDOKU_L * (row - 1)]
Column(column) == [kind |-> "Column", index |-> column - 1]
Cell(i, j) ==
    [kind |-> "Cell",
     index |-> SUDOKU_C * SUDOKU_L * (i - 1) + SUDOKU_C * (j - 1)]

\* count_layer_positions: the number of entries of layer.indices that pass
\* the filter of the segment kind.
RowCountLayerPositions(seg, layer) ==
    Cardinality({n \in 1 .. Len(layer.indices) :
        LET i == layer.indices[n]
        IN i >= SUDOKU_L * seg.index /\ i < SUDOKU_L * (seg.index + 1)})

ColumnCountLayerPositions(seg, layer) ==
    Cardinality({n \in 1 .. Len(layer.indices) :
        LET i == layer.indices[n]
        IN i % SUDOKU_L = seg.index})

CellCountLayerPositions(seg, layer) ==
    Cardinality({n \in 1 .. Len(layer.indices) :
        LET i == layer.indices[n]
        IN IF i >= seg.index
              /\ i < seg.index + (SUDOKU_C - 1) * SUDOKU_L + SUDOKU_C
           THEN (i - seg.index) % SUDOKU_L < SUDOKU_C
           ELSE FALSE})

CountLayerPositions(seg, layer) ==
    CASE seg.kind = "Row" -> RowCountLayerPositions(seg, layer)
      [] seg.kind = "Column" -> ColumnCountLayerPositions(seg, layer)
      [] seg.kind = "Cell" -> CellCountLayerPositions(seg, layer)

\* is_layer_solved: Ok(false), Ok(true) or Err(CorruptLayerError).
IsLayerSolved(seg, layer) ==
    LET n == CountLayerPositions(seg, layer)
    IN CASE n = 0 -> "false"
         [] n = 1 -> "true"
         [] OTHER -> "corrupt"

\* The unwrap / expect on is_layer_solved panics for some layer.
Corrupt(seg, ls) == \E v \in Digits : IsLayerSolved(seg, ls[v]) = "corrupt"

\* count_open, where no unwrap panics.
CountOpen(seg, ls) ==
    SUDOKU_L - Cardinality({v \in Digits : IsLayerSolved(seg, ls[v]) = "true"})

\* The 1 bits of a mask in ascending order (iter_ones).
IterOnes(bits) == Ascending(bits)

\* first_zero found in the window of another row: the offset s is not added.
RowLocateNoOffset(seg, layer) ==
    LET row_mask == MaskRow(seg.index) \cap layer.mask
        s == seg.index
        window == s .. (s + SUDOKU_L - 1)
    IN IF Cardinality(row_mask) = 8
       THEN (CHOOSE i \in window \ row_mask :
                \A j \in window \ row_mask : i <= j) - s
       ELSE NotFound

RowLocate(seg, layer) ==
    LET row_mask == MaskRow(seg.index) \cap layer.mask
        s == seg.index
        window == s .. (s + SUDOKU_L - 1)
    IN IF Cardinality(row_mask) = 8
       THEN CHOOSE i \in window \ row_mask :
                \A j \in window \ row_mask : i <= j
       ELSE NotFound

\* The board index the take_while of Column::locate expects of entry i.
ColumnSlot(index, i) == index + SUDOKU_L * i

\* The position after the last matching one is taken to be the next bit,
\* not the next row.
ColumnLocateNextBit(seg, layer) ==
    LET column_mask == MaskColumn(seg.index) \cap layer.mask
        ones == IterOnes(column_mask)
        l == Cardinality({n \in 1 .. Len(ones) :
                \A m \in 1 .. n : ones[m] = ColumnSlot(seg.index, m - 1)})
    IN IF Cardinality(column_mask) = 8
       THEN IF l = 0 THEN seg.index ELSE ones[l] + 1
       ELSE NotFound

\* l is the number of entries enumerate().take_while(..) lets through: the
\* length of the longest prefix of ones in which entry i (from 0) is at the
\* position the closure expects; last() is entry l - 1.
ColumnLocate(seg, layer) ==
    LET column_mask == MaskColumn(seg.index) \cap layer.mask
        ones == IterOnes(column_mask)
        l == Cardinality({n \in 1 .. Len(ones) :
                \A m \in 1 .. n : ones[m] = ColumnSlot(seg.index, m - 1)})
    IN IF Cardinality(column_mask) = 8
       THEN IF l = 0 THEN seg.index ELSE ones[l] + SUDOKU_L
       ELSE NotFound

\* The board index of entry i of a block: the take_while of Cell::locate
\* and its result use the same expression.
CellSlot(index, i) == index + SUDOKU_L * (i \div SUDOKU_C) + (i % SUDOKU_C)

\* The slot of the last matching one is returned, not the slot after it.
CellLocateLastMatch(seg, layer) ==
    LET cell_mask == MaskCell(seg.index) \cap layer.mask
        ones == IterOnes(cell_mask)
        l == Cardinality({n \in 1 .. Len(ones) :
                \A m \in 1 .. n : ones[m] = CellSlot(seg.index, m - 1)})
    IN IF Cardinality(cell_mask) = 8
       THEN IF l = 0 THEN seg.index ELSE CellSlot(seg.index, l - 1)
       ELSE NotFound

CellLocate(seg, layer) ==
    LET cell_mask == MaskCell(seg.index) \cap layer.mask
        ones == IterOnes(cell_mask)
        l == Cardinality({n \in 1 .. Len(ones) :
                \A m \in 1 .. n : ones[m] = CellSlot(seg.index, m - 1)})
    IN IF Cardinality(cell_mask) = 8
       THEN IF l = 0 THEN seg.index ELSE CellSlot(seg.index, (l - 1) + 1)
       ELSE NotFound

Locate(seg, layer) ==
    CASE seg.kind = "Row" -> RowLocate(seg, layer)
      [] seg.kind = "Column" -> ColumnLocate(seg, layer)
      [] seg.kind = "Cell" -> CellLocate(seg, layer)

\* iterate, first half: the (value, index) pairs pushed to finds, in layer
\* order, for the layers the segment does not count as solved.
Finds(seg, ls) ==
    LET hit == SelectSeq([v \in Digits |-> v],
                         LAMBDA v : IsLayerSolved(seg, ls[v]) = "false"
                                    /\ Locate(seg, ls[v]) # NotFound)
    IN [n \in 1 .. Len(hit) |-> <<hit[n], Locate(seg, ls[hit[n]])>>]

\* iterate, second half: update for every find, in order.
RECURSIVE ApplyFinds(_, _)
ApplyFinds(finds, ls) ==
    IF finds = << >> THEN ls
    ELSE ApplyFinds(Tail(finds), Update(ls, Head(finds)[1], Head(finds)[2]))

---------------------------------------------------------------------------
(* solve: the segments it builds, its sort key, its retain filter *)

\* The 27 segments in the order solve pushes them.
InitialSegments ==
    [n \in 1 .. 27 |->
        LET index == ((n - 1) \div 3) + 1
            i == ((index - 1) \div SUDOKU_C) + 1
            j == ((index - 1) % SUDOKU_C) + 1
        IN CASE (n - 1) % 3 = 0 -> Row(index)
             [] (n - 1) % 3 = 1 -> Column(index)
             [] (n - 1) % 3 = 2 -> Cell(i, j)]

AllSegments == {InitialSegments[n] : n \in 1 .. 27}

\* sort_by_key(|segment| 9 - count_open): a stable sort, so segments of equal
\* key keep their order.  The keys are 0..9: the result is the segments of
\* key 0 in their order, then those of key 1, and so on.
SortSegments(segs, ls) ==
    LET bucket(c) ==
            SelectSeq(segs, LAMBDA seg : SUDOKU_L - CountOpen(seg, ls) = c)
    IN bucket(0) \o bucket(1) \o bucket(2) \o bucket(3) \o bucket(4)
       \o bucket(5) \o bucket(6) \o bucket(7) \o bucket(8) \o bucket(9)

\* retain(|segment| count_open > 0)
RetainSegments(segs, ls) ==
    SelectSeq(segs, LAMBDA seg : CountOpen(seg, ls) > 0)

\* Some count_open over the working list panics.
AnyCorrupt(segs, ls) == \E n \in 1 .. Len(segs) : Corrupt(segs[n], ls)

---------------------------------------------------------------------------
(* Board geometry and the vocabulary of the properties.  Nothing here is   *)
(* taken from the code: it is what the properties measure the code with.   *)

RowOf(p) == p \div 9
ColumnOf(p) == p % 9
BlockOf(p) == (3 * (p \div 27)) + ((p % 9) \div 3)
SamePeerGroup(p, q) ==
    RowOf(p) = RowOf(q) \/ ColumnOf(p) = ColumnOf(q) \/ BlockOf(p) = BlockOf(q)

\* The 27 rows, columns and blocks of the board, as sets of positions.
Units ==
    {{p \in Positions : RowOf(p) = u} : u \in 0 .. 8}
    \cup {{p \in Positions : ColumnOf(p) = u} : u \in 0 .. 8}
    \cup {{p \in Positions : BlockOf(p) = u} : u \in 0 .. 8}

\* The positions geometrically inside a segment: Row(r) is 9(r-1)..9(r-1)+8,
\* Column(c) the positions with index mod 9 = c-1, Cell(i, j) the block whose
\* top-left position is 27(i-1) + 3(j-1).
Inside(seg) ==
    CASE seg.kind = "Row" -> {p \in Positions : 9 * RowOf(p) = seg.index}
      [] seg.kind = "Column" -> {p \in Positions : ColumnOf(p) = seg.index}
      [] seg.kind = "Cell" ->
            {p \in Positions : BlockOf(p) = BlockOf(seg.index)}

\* A grid or a feed g gives the digit of position p as g[p + 1]; 0 is blank.
OpenCells(g) == {p \in Positions : g[p + 1] = 0}

\* No digit is given twice in a row, a column or a block.
WellFormed(g) ==
    \A u \in Units : \A v \in Digits :
        Cardinality({p \in u : g[p + 1] = v}) <= 1

\* Every row, column and block holds each digit exactly once.
CompleteGrid(g) == \A u \in Units : {g[p + 1] : p \in u} = Digits

\* The blank positions where digit v meets no v in its row, column or block.
CandidatesOf(g, v) ==
    LET held == {q \in Positions : g[q + 1] = v}
        rows == {RowOf(q) : q \in held}
        columns == {ColumnOf(q) : q \in held}
        blocks == {BlockOf(q) : q \in held}
    IN {p \in Positions : /\ g[p + 1] = 0
                          /\ RowOf(p) \notin rows
                          /\ ColumnOf(p) \notin columns
                          /\ BlockOf(p) \notin blocks}

\* The positions that are the only candidate of v in some unit.
SinglesOf(g, v) ==
    UNION UNION {{u \cap c : u \in {w \in Units : Cardinality(w \cap c) = 1}} :
                    c \in {CandidatesOf(g, v)}}

\* One pass of single-position elimination on a grid.
FillSingles(g) ==
    LET singles == <<SinglesOf(g, 1), SinglesOf(g, 2), SinglesOf(g, 3),
                     SinglesOf(g, 4), SinglesOf(g, 5), SinglesOf(g, 6),
                     SinglesOf(g, 7), SinglesOf(g, 8), SinglesOf(g, 9)>>
    IN SubSeq([n \in 1 .. SUDOKU_A |->
                  IF \E v \in Digits : n - 1 \in singles[v]
                  THEN CHOOSE v \in Digits : n - 1 \in singles[v]
                  ELSE g[n]],
              1, SUDOKU_A)

\* Single-position elimination run to its fixed point.
RECURSIVE FillAll(_)
FillAll(g) ==
    CHOOSE r \in {IF x = g THEN g ELSE FillAll(x) : x \in {FillSingles(g)}} :
        TRUE

\* Single-position elimination alone finishes the puzzle.
CanFinish(g) == CompleteGrid(FillAll(g))

\* The (digit, position) placements a puzzle holds.
Placements(ls) == {<<v, p>> \in Digits \X Positions : v \in Holders(ls, p)}

---------------------------------------------------------------------------
(* The puzzles the model is run on *)

\* The puzzle of main.rs and of the tests, and the grid the tests expect.
ReferenceFeed ==
    << 0, 2, 9, 3, 0, 6, 8, 0, 7,
       0, 0, 0, 7, 0, 2, 0, 5, 0,
       6, 0, 7, 1, 0, 0, 0, 0, 2,
       0, 0, 5, 0, 0, 9, 0, 1, 0,
       0, 0, 0, 0, 8, 0, 0, 0, 0,
       0, 0, 4, 6, 1, 0, 0, 0, 0,
       0, 4, 0, 0, 6, 0, 0, 8, 0,
       0, 6, 1, 8, 7, 4, 2, 0, 9,
       7, 0, 8, 0, 3, 1, 0, 0, 5 >>

ReferenceSolution ==
    << 1, 2, 9, 3, 5, 6, 8, 4, 7,
       4, 8, 3, 7, 9, 2, 1, 5, 6,
       6, 5, 7, 1, 4, 8, 3, 9, 2,
       8, 7, 5, 4, 2, 9, 6, 1, 3,
       2, 1, 6, 5, 8, 3, 9, 7, 4,
       9, 3, 4, 6, 1, 7, 5, 2, 8,
       3, 4, 2, 9, 6, 5, 7, 8, 1,
       5, 6, 1, 8, 7, 4, 2, 3, 9,
       7, 9, 8, 2, 3, 1, 4, 6, 5 >>

\* A second complete grid: the reference solution with the 1s and 2s at
\* positions 0, 1, 36, 37 exchanged.  A feed with these four cells blank has
\* both grids as solutions.
SwappedSolution ==
    SubSeq([n \in 1 .. SUDOKU_A |->
               CASE n - 1 \in {0, 37} -> 2
                 [] n - 1 \in {1, 36} -> 1
                 [] OTHER -> ReferenceSolution[n]],
           1, SUDOKU_A)

Grids == {ReferenceSolution, SwappedSolution}

\* The cells a feed of the family may leave blank.
HolePool == {0, 1, 36, 37, 45, 65}

\* Digits written over a grid before blanking: none, or a 1 at position 2.
\* With 0, 45 and 65 blank the 1 at position 2 repeats in no row, column or
\* block of the reference grid, yet no grid extends the feed.
Overrides == {{}, {<<2, 1>>}}

\* SubSeq makes the feed a sequence of 81 digits.
MakeFeed(grid, holes, over) ==
    SubSeq([n \in 1 .. SUDOKU_A |->
               IF n - 1 \in holes THEN 0
               ELSE IF \E o \in over : o[1] = n - 1
                    THEN (CHOOSE o \in over : o[1] = n - 1)[2]
                    ELSE grid[n]],
           1, SUDOKU_A)

NoSolution == << >>

HoleSets == {h \in SUBSET HolePool : Cardinality(h) <= MaxHoles}

\* The override changes a cell that is kept.
Overridden(grid, holes, over) ==
    \E o \in over : o[1] \notin holes /\ grid[o[1] + 1] # o[2]

---------------------------------------------------------------------------
(* State *)

VARIABLES
    feed,           \* the string handed to Puzzle::parse, as digits
    sol,            \* a complete grid that extends feed, or NoSolution
    finishable,     \* CanFinish(feed), fixed at parse time
    layers,         \* Puzzle.layers of the puzzle under solve or update
    segments,       \* solve's working list
    pc,             \* where the run stands
    k,              \* solve: position of the for_each over segments
    roundFinds,     \* solve: placements committed in the current round
    lastRoundZero,  \* solve: the last full round committed no placement
    other,          \* layers of a second puzzle parsed from the same feed
    history,        \* the (value, index) pairs of the direct update calls
    mask,           \* the mask a constructor returned / locate is given
    call            \* the last direct constructor, locate or iterate call

vars == <<feed, sol, finishable, layers, segments, pc, k, roundFinds,
          lastRoundZero, other, history, mask, call>>

NoSegment == [kind |-> "None", index |-> 0]
NoCall == [op |-> "none", seg |-> NoSegment, index |-> 0, result |-> "none"]

solveVars == <<layers, segments, pc, k, roundFinds, lastRoundZero>>

---------------------------------------------------------------------------
(* Spec: parse, then solve *)

\* The feeds: the reference puzzle, and the grids with up to MaxHoles cells
\* of the pool blanked, with or without the override.
Init ==
    /\ \/ feed = ReferenceFeed /\ sol = ReferenceSolution
       \/ \E grid \in Grids, holes \in HoleSets, over \in Overrides :
            /\ feed = MakeFeed(grid, holes, over)
            /\ sol = IF Overridden(grid, holes, over) THEN NoSolution ELSE grid
    /\ finishable = CanFinish(feed)
    /\ layers = Parse(feed)
    /\ other = Parse(feed)
    /\ segments = << >>
    /\ pc = "parsed"
    /\ k = 0
    /\ roundFinds = 0
    /\ lastRoundZero = FALSE
    /\ history = << >>
    /\ mask = {}
    /\ call = NoCall

\* solve, up to its loop: the 27 segments are built.
SolveStart ==
    /\ pc = "parsed"
    /\ segments' = InitialSegments
    /\ pc' = "loop"
    /\ UNCHANGED <<feed, sol, finishable, layers, k, roundFinds, lastRoundZero,
                   other, history, mask, call>>

\* The loop test, and the sort that opens a round.  sort_by_key computes no
\* key on a list shorter than two.
LoopTest ==
    /\ pc = "loop"
    /\ IF IsSolved(layers)
       THEN pc' = "done" /\ UNCHANGED <<segments, k, roundFinds>>
       ELSE IF Len(segments) >= 2 /\ AnyCorrupt(segments, layers)
            THEN pc' = "abort" /\ UNCHANGED <<segments, k, roundFinds>>
            ELSE /\ segments' = SortSegments(segments, layers)
                 /\ k' = 1
                 /\ roundFinds' = 0
                 /\ pc' = "iterate"
    /\ UNCHANGED <<feed, sol, finishable, layers, lastRoundZero,
                   other, history, mask, call>>

\* One iterate call of the round.
IterateStep ==
    /\ pc = "iterate"
    /\ k <= Len(segments)
    /\ IF Corrupt(segments[k], layers)
       THEN pc' = "abort" /\ UNCHANGED <<layers, k, roundFinds>>
       ELSE \E finds \in {Finds(segments[k], layers)} :
                /\ layers' = ApplyFinds(finds, layers)
                /\ roundFinds' = roundFinds + Len(finds)
                /\ k' = k + 1
                /\ pc' = pc
    /\ UNCHANGED <<feed, sol, finishable, segments, lastRoundZero,
                   other, history, mask, call>>

\* The retain that closes a round.
RetainStep ==
    /\ pc = "iterate"
    /\ k > Len(segments)
    /\ IF AnyCorrupt(segments, layers)
       THEN pc' = "abort" /\ UNCHANGED <<segments, lastRoundZero>>
       ELSE /\ segments' = RetainSegments(segments, layers)
            /\ lastRoundZero' = (roundFinds = 0)
            /\ pc' = "loop"
    /\ UNCHANGED <<feed, sol, finishable, layers, k, roundFinds,
                   other, history, mask, call>>

SolveNext == SolveStart \/ LoopTest \/ IterateStep \/ RetainStep

Spec == Init /\ [][SolveNext]_vars

\* solve runs on: the loop has no suspension point.
FairSpec == Spec /\ WF_vars(SolveNext)

---------------------------------------------------------------------------
(* OrderSpec: solve, then direct iterate calls on a second puzzle *)

\* solve has returned, or stands at the loop test after a round that
\* committed no placement.
SolveFinal == pc = "done" \/ (pc = "loop" /\ lastRoundZero)

\* A direct iterate call on the second puzzle, any segment in any order (as
\* tests::puzzle_row_iteration calls it), once solve on the first puzzle has
\* reached its final state.  The expect of iterate panics on a corrupt
\* layer; no call follows a panic.
IterateCall(seg) ==
    /\ SolveFinal
    /\ call.result # "panic"
    /\ IF Corrupt(seg, other)
       THEN /\ call' = [op |-> "iterate", seg |-> seg, index |-> 0,
                        result |-> "panic"]
            /\ other' = other
       ELSE \E finds \in {Finds(seg, other)} :
                /\ other' = ApplyFinds(finds, other)
                /\ call' = IF finds = << >> THEN call
                           ELSE [op |-> "iterate", seg |-> seg, index |-> 0,
                                 result |-> "ok"]
    /\ UNCHANGED <<feed, sol, finishable, history, mask>>
    /\ UNCHANGED solveVars

\* The first run is followed up to its final state and left there once the
\* direct calls have begun.
OrderNext ==
    \/ call = NoCall /\ SolveNext
    \/ \E seg \in AllSegments : IterateCall(seg)

\* Every order is explored on the feeds of the family; the reference puzzle,
\* with its 46 blank cells, is left to Spec.
OrderInit == Init /\ Cardinality(OpenCells(feed)) <= MaxHoles

OrderSpec == OrderInit /\ [][OrderNext]_vars

\* No segment has a find left for the second puzzle.
OtherFinal ==
    /\ call.result # "panic"
    /\ \A seg \in AllSegments : ~Corrupt(seg, other) /\ Finds(seg, other) = << >>

---------------------------------------------------------------------------
(* SpecUpdate: update calls on an empty Puzzle *)

InitUpdate ==
    /\ feed = << >>
    /\ sol = NoSolution
    /\ finishable = FALSE
    /\ layers = EmptyLayers
    /\ other = EmptyLayers
    /\ segments = << >>
    /\ pc = "update"
    /\ k = 0
    /\ roundFinds = 0
    /\ lastRoundZero = FALSE
    /\ history = << >>
    /\ mask = {}
    /\ call = NoCall

UpdateCall(value, index) ==
    /\ pc = "update"
    /\ Len(history) < MaxUpdates
    /\ layers' = Update(layers, value, index)
    /\ history' = Append(history, <<value, index>>)
    /\ UNCHANGED <<feed, sol, finishable, segments, pc, k, roundFinds,
                   lastRoundZero, other, mask, call>>

UpdateNext ==
    \E value \in Digits, index \in 0 .. MaxUpdIndex : UpdateCall(value, index)

SpecUpdate == InitUpdate /\ [][UpdateNext]_vars

---------------------------------------------------------------------------
(* SpecMask: one call of a shape constructor *)

InitMask ==
    /\ feed = << >>
    /\ sol = NoSolution
    /\ finishable = FALSE
    /\ layers = EmptyLayers
    /\ other = EmptyLayers
    /\ segments = << >>
    /\ pc = "mask"
    /\ k = 0
    /\ roundFinds = 0
    /\ lastRoundZero = FALSE
    /\ history = << >>
    /\ mask = {}
    /\ call = NoCall

\* A constructor call: the assertion panics, or the shifted pattern is
\* returned.
MaskCellCall ==
    /\ pc = "mask"
    /\ call = NoCall
    /\ \E index \in 0 .. MaxIndex :
         IF CellAccepts(index)
         THEN /\ mask' = MaskCell(index)
              /\ call' = [op |-> "cell", seg |-> NoSegment, index |-> index,
                          result |-> "ok"]
         ELSE /\ mask' = mask
              /\ call' = [op |-> "cell", seg |-> NoSegment, index |-> index,
                          result |-> "panic"]
    /\ UNCHANGED <<feed, sol, finishable, layers, segments, pc, k, roundFinds,
                   lastRoundZero, other, history>>

MaskRowCall ==
    /\ pc = "mask"
    /\ call = NoCall
    /\ \E index \in 0 .. MaxIndex :
         IF RowAccepts(index)
         THEN /\ mask' = MaskRow(index)
              /\ call' = [op |-> "row", seg |-> NoSegment, index |-> index,
                          result |-> "ok"]
         ELSE /\ mask' = mask
              /\ call' = [op |-> "row", seg |-> NoSegment, index |-> index,
                          result |-> "panic"]
    /\ UNCHANGED <<feed, sol, finishable, layers, segments, pc, k, roundFinds,
                   lastRoundZero, other, history>>

MaskColumnCall ==
    /\ pc = "mask"
    /\ call = NoCall
    /\ \E index \in 0 .. MaxIndex :
         IF ColumnAccepts(index)
         THEN /\ mask' = MaskColumn(index)
              /\ call' = [op |-> "column", seg |-> NoSegment, index |-> index,
                          result |-> "ok"]
         ELSE /\ mask' = mask
              /\ call' = [op |-> "column", seg |-> NoSegment, index |-> index,
                          result |-> "panic"]
    /\ UNCHANGED <<feed, sol, finishable, layers, segments, pc, k, roundFinds,
                   lastRoundZero, other, history>>

MaskNext == MaskCellCall \/ MaskRowCall \/ MaskColumnCall

SpecMask == InitMask /\ [][MaskNext]_vars

---------------------------------------------------------------------------
(* SpecLocate: one locate call on a layer with a given blocked mask *)

\* The masks locate is probed with: all of a segment's positions blocked but
\* up to MaxUnblocked of them, and outside the segment nothing or everything.
ProbeMasks ==
    UNION {{(Inside(seg) \ open) \cup rest :
               open \in {o \in SUBSET Inside(seg) :
                            Cardinality(o) <= MaxUnblocked},
               rest \in {{}, Positions \ Inside(seg)}} :
           seg \in AllSegments}

InitLocate ==
    /\ feed = << >>
    /\ sol = NoSolution
    /\ finishable = FALSE
    /\ layers = EmptyLayers
    /\ other = EmptyLayers
    /\ segments = << >>
    /\ pc = "locate"
    /\ k = 0
    /\ roundFinds = 0
    /\ lastRoundZero = FALSE
    /\ history = << >>
    /\ mask \in ProbeMasks
    /\ call = NoCall

LocateCall(seg) ==
    /\ pc = "locate"
    /\ call = NoCall
    /\ call' = [op |-> "locate", seg |-> seg, index |-> 0,
                result |-> Locate(seg, [indices |-> << >>, mask |-> mask])]
    /\ UNCHANGED <<feed, sol, finishable, layers, segments, pc, k, roundFinds,
                   lastRoundZero, other, history, mask>>

LocateNext == \E seg \in AllSegments : LocateCall(seg)

SpecLocate == InitLocate /\ [][LocateNext]_vars

---------------------------------------------------------------------------
(* Properties *)

\* The readout is a complete grid that keeps every given digit.
SolvedReadout ==
    LET readout == Readout(layers)
    IN /\ \A p \in Positions : readout[p] # 0
       /\ \A p \in Positions : feed[p + 1] # 0 => readout[p] = feed[p + 1]
       /\ \A u \in Units : {readout[p] : p \in u} = Digits

\* C1: solve on a parsed well-formed puzzle that single-position elimination
\* can finish terminates, and the readout is then a complete grid that keeps
\* the givens and has each digit once in every row, column and block; for
\* the reference puzzle it is the grid the tests expect.
C1_SolveFinishes ==
    /\ (finishable /\ WellFormed(feed)) ~> (pc = "done" /\ SolvedReadout)
    /\ (feed = ReferenceFeed)
          ~> (pc = "done"
              /\ \A p \in Positions :
                    Readout(layers)[p] = ReferenceSolution[p + 1])

C1_Witness ==
    /\ feed = ReferenceFeed
    /\ finishable
    /\ pc = "done"
    /\ SolvedReadout

\* C2: for a parsed puzzle that has a solution, in every state reached
\* during solve each (digit, position) a layer has placed is the digit of
\* that position in the solution, whichever solution extends the givens.
C2_NeverIncorrect ==
    sol # NoSolution =>
        \A v \in Digits : \A i \in 1 .. Len(layers[v].indices) :
            sol[layers[v].indices[i] + 1] = v

C2_Witness ==
    /\ sol = SwappedSolution
    /\ pc = "iterate"
    /\ roundFinds > 0

\* C3: from an empty Puzzle, after any sequence of update(value, index)
\* calls every position is in the indices of at most one layer.
C3_NoDoubleAssignment ==
    \A p \in Positions : Cardinality(Holders(layers, p)) <= 1

\* C4: if the givens repeat no digit in a row, column or block, then in
\* every state reached during solve no layer holds two placed indices in the
\* same row, column or block, and neither count_open nor iterate aborts.
C4_NoCorruptLayer ==
    WellFormed(feed) =>
        /\ pc # "abort"
        /\ \A v \in Digits : \A i, j \in 1 .. Len(layers[v].indices) :
              i # j => ~SamePeerGroup(layers[v].indices[i],
                                      layers[v].indices[j])

C4_Witness ==
    /\ WellFormed(feed)
    /\ sol = NoSolution
    /\ pc = "loop"
    /\ lastRoundZero
    /\ Placements(layers) # Placements(Parse(feed))

\* C5: solve returns only when all 9 layers have 9 placed indices; once a
\* full round has committed no placement, every later round commits none,
\* the layers never change again and solve never returns.
C5_StallIsForever ==
    /\ [](pc = "done" =>
            \A v \in Digits : Len(layers[v].indices) = SUDOKU_L)
    /\ [][lastRoundZero =>
            /\ layers' = layers
            /\ lastRoundZero'
            /\ pc' \notin {"done", "abort"}]_vars

C5_Witness ==
    /\ lastRoundZero
    /\ pc = "iterate"
    /\ k > Len(segments)
    /\ \E v \in Digits : Len(layers[v].indices) < SUDOKU_L

\* C6: for each of the 27 segments and every puzzle state without a corrupt
\* layer, count_open is 9 minus the number of digits that have a placed
\* index geometrically inside the segment.
C6_CountOpenGeometric ==
    \A seg \in AllSegments :
        ~Corrupt(seg, layers) =>
            CountOpen(seg, layers)
                = SUDOKU_L - Cardinality({v \in Digits :
                                \E p \in Inside(seg) : v \in Holders(layers, p)})

\* C7: if exactly 8 of the segment's 9 positions are blocked in the layer's
\* mask, locate returns the one that is not; otherwise it returns not-found.
C7_LocateUnique ==
    call.op = "locate" =>
        LET open == Inside(call.seg) \ mask
        IN IF Cardinality(open) = 1
           THEN call.result \in open
           ELSE call.result = NotFound

C7_Witness ==
    /\ call.op = "locate"
    /\ call.seg = Cell(3, 3)
    /\ Inside(call.seg) \ mask = {80}
    /\ call.result = 80

\* C8: for every index a shape constructor accepts as valid (cell: index <
\* 81 and index mod 9 in 0..6; row: index mod 9 = 0 and index < 81; column:
\* index in 0..8) the mask, seen over bits 0..80, has exactly 9 bits set.
C8_ShapePopcount ==
    (/\ call.result = "ok"
     /\ \/ call.op = "cell" /\ call.index < 81 /\ call.index % 9 \in 0 .. 6
        \/ call.op = "row" /\ call.index % 9 = 0 /\ call.index < 81
        \/ call.op = "column" /\ call.index \in 0 .. 8)
    => Cardinality(mask) = 9

\* C9, as stated: for a given parsed puzzle (here: any whose givens repeat
\* no digit in a row, column or block) the placements held when the
\* iteration reaches a solved state or finds nothing more are the same in
\* whatever order the segments are iterated.
C9_AnyPuzzleSameFixedPoint ==
    (WellFormed(feed) /\ SolveFinal /\ OtherFinal)
        => Placements(layers) = Placements(other)

\* C9, amended: for a parsed puzzle that has a solution, the placements held
\* when the iteration reaches a solved state or finds nothing more are the
\* same in whatever order the segments are iterated.
C9_SolvableSameFixedPoint ==
    (sol # NoSolution /\ SolveFinal /\ OtherFinal)
        => Placements(layers) = Placements(other)

C9_Witness ==
    /\ sol # NoSolution
    /\ SolveFinal
    /\ OtherFinal
    /\ call.op = "iterate"
    /\ Cardinality(OpenCells(feed)) >= 3
    /\ Placements(other) # Placements(Parse(feed))

\* C10: one iterate call on a segment changes the readout only at positions
\* inside that segment that read 0 before the call.
C10_IterateFrame ==
    [][(pc = "iterate" /\ pc' = "iterate" /\ k' = k + 1) =>
          \A p \in Positions :
              Readout(layers')[p] # Readout(layers)[p]
                  => (p \in Inside(segments[k]) /\ Readout(layers)[p] = 0)]_vars

C10_Witness ==
    /\ pc = "iterate"
    /\ k > 1
    /\ roundFinds > 0
    /\ \E p \in Inside(segments[k - 1]) :
          feed[p + 1] = 0 /\ Readout(layers)[p] # 0

====
